---- MODULE Spec2Model ----
(***************************************************************************)
(* PerseusSDK: the command sequence (RobotCommand), the status vocabulary  *)
(* and the Controller state machine that executes one sequence at a time.  *)
(*                                                                         *)
(* RobotCommand, ToResponseStatus, IsActionFinished, ControllerMode,       *)
(* GenerateCommandId, SetWaitingCallback and the Controller's fields are   *)
(* translated from the headers.  The bodies of ExecuteMotion, SendCommand, *)
(* FinishMotion, BindNetwork, the status sink and the timers are not in    *)
(* the headers; they follow section 4.2 of the specification.              *)
(***************************************************************************)
EXTENDS Integers, Sequences, FiniteSets, TLC

\* ------------------------------------------------------------------ bounds
\* The longest command list handed to CreateCommands.
MaxLen == 3
\* The last id that ExecuteMotion through the facade draws from the counter.
MaxId == 1
\* The largest raw status code, short of the far end of the range, that is
\* handed to ToResponseStatus on its own.
MaxCode == 127
\* The longest list of variants handed to CreateCommands on its own.
MaxVariants == 22

\* --------------------------------------------------------------- constants
cmd_list_size == 20

kIdle == 0
kSending == 1
kWaiting == 2
kSubSuccess == 3
kSuccess == 4
kFail == 5
kUserStop == 6
kTimeout == 7
kAbort == 8
kRefused == 9
kUnknown == 10

ResponseStatus == kIdle..kUnknown

\* A uint32 is kept as two 16-bit halves, [hi, lo], so that its arithmetic
\* is exact modulo 2^32.
Half == 2^16
U32(n) == [hi |-> n \div Half, lo |-> n % Half]
U32Inc(u) ==
    IF u.lo = Half - 1
    THEN [hi |-> (u.hi + 1) % Half, lo |-> 0]
    ELSE [u EXCEPT !.lo = @ + 1]
U32Less(a, b) == a.hi < b.hi \/ (a.hi = b.hi /\ a.lo < b.lo)
\* The value of a uint32 below 2^31.
U32Val(u) == u.hi * Half + u.lo

Null == "null"
NoCallback == "none"

Handles == {"h1", "h2"}
AllControllers == {"c1", "c2"}
Controllers == {"c1"}
Networks == {"net1"}
Callbacks == {"cb1"}

ControlSpace == {"kJoint", "kTask"}
ControlType == {"kPosition", "kCommand"}
ControllerMode == [space : ControlSpace, type : ControlType]
JointPosition == [space |-> "kJoint", type |-> "kPosition"]
TaskCommand == [space |-> "kTask", type |-> "kCommand"]

\* ------------------------------------------------------------------ inputs
CommandKinds == <<"MotionCommand", "TorqueCommand", "EndEffectorCommand">>

\* The i-th command of an input list: the kinds rotate and the per-step
\* timeouts alternate between 2 ticks and 1 tick, so neighbouring steps differ.
StepOf(i) == [kind |-> CommandKinds[(i % 3) + 1], timeout |-> 1 + (i % 2)]

CommandLists == {[i \in 1..n |-> StepOf(i)] : n \in 0..MaxLen}

TooLongList == [i \in 1..(cmd_list_size + 1) |-> StepOf(i)]

\* 3 ticks: more than any one step's timeout, less than three steps' sum.
TotalTimeouts == {3}

\* The commands handed to CreateCommand (one-command sequences).
SingleCommands == {StepOf(1)}

\* Raw status codes the transport may deliver (uint32).
RawCodes == (0..10) \cup {255, 2147483647}

\* ------------------------------------------------------- status vocabulary
\* ToResponseStatus with kFail, not kUnknown, for what it cannot decode.
ToResponseStatus_DefaultFail(result) ==
    IF result >= kWaiting /\ result <= kRefused THEN result ELSE kFail

\* ToResponseStatus whose range starts one value early, at kSending.
ToResponseStatus_FromSending(result) ==
    IF result >= kSending /\ result <= kRefused THEN result ELSE kUnknown

ToResponseStatus(result) ==
    IF result >= kWaiting /\ result <= kRefused THEN result ELSE kUnknown

\* IsActionFinished without its kRefused case.
IsActionFinished_NoRefused(status) ==
    status \in {kSuccess, kUserStop, kTimeout, kAbort, kFail}

\* IsActionFinished without its kAbort case.
IsActionFinished_NoAbort(status) ==
    status \in {kSuccess, kUserStop, kTimeout, kFail, kRefused}

IsActionFinished(status) ==
    status \in {kSuccess, kUserStop, kTimeout, kAbort, kFail, kRefused}

\* A partial match: the space alone.
ModeEq_SpaceOnly(a, b) == a.space = b.space

ModeEq(a, b) == a.space = b.space /\ a.type = b.type

\* ------------------------------------------------------------ RobotCommand
\* CreateCommands: [ok, cmd]; ok = FALSE is the ConstructorException.
NewRobotCommand ==
    [cmd_id |-> U32(0), cmd_size |-> 0, commands |-> <<>>, total_timeout |-> 30,
     current_index |-> 0, finished |-> FALSE, status |-> kIdle]

\* CreateCommands that refuses a list of exactly cmd_list_size commands.
CreateCommands_RefusesFull(sequence, total_timeout_s) ==
    LET N == Len(sequence) IN
    IF N = 0 \/ N >= cmd_list_size THEN [ok |-> FALSE, cmd |-> NewRobotCommand]
    ELSE [ok |-> TRUE,
          cmd |-> [NewRobotCommand EXCEPT !.cmd_size = N,
                                          !.total_timeout = total_timeout_s,
                                          !.commands = [i \in 1..N |-> sequence[i]]]]

CreateCommands(sequence, total_timeout_s) ==
    LET N == Len(sequence) IN
    IF N = 0 \/ N > cmd_list_size
    THEN [ok |-> FALSE, cmd |-> NewRobotCommand]
    ELSE [ok |-> TRUE,
          cmd |-> [NewRobotCommand EXCEPT !.cmd_size = N,
                                          !.total_timeout = total_timeout_s,
                                          !.commands = [i \in 1..N |-> sequence[i]]]]

\* CreateCommand that keeps the default aggregate timeout.
CreateCommand_DefaultTimeout(c) ==
    [NewRobotCommand EXCEPT !.cmd_size = 1,
                            !.commands = <<c>>]

CreateCommand(c) ==
    [NewRobotCommand EXCEPT !.cmd_size = 1,
                            !.total_timeout = c.timeout,
                            !.commands = <<c>>]

HasNext(s) == s.current_index < Len(s.commands)

\* Current() throws ControlException when the cursor is past the end.
CurrentThrows(s) == s.current_index >= Len(s.commands)

\* Current that does not follow the cursor.
Current_First(s) == s.commands[1]

Current(s) == s.commands[s.current_index + 1]

\* Advance without its condition.
Advance_PastTheEnd(s) == [s EXCEPT !.current_index = @ + 1]

Advance(s) ==
    IF s.current_index < Len(s.commands)
    THEN [s EXCEPT !.current_index = @ + 1]
    ELSE s

\* detail::EndEffectorActionToString: the label of an action, "Unknown" for
\* a value outside the enumeration.
EndEffectorActionToString(action) ==
    CASE action = 0 -> "Idle"
      [] action = 1 -> "Open"
      [] action = 2 -> "Close"
      [] action = 3 -> "ForceClose"
      [] OTHER -> "Unknown"

IsMotion(c) == c.kind = "MotionCommand"

IsEndEffector(c) == c.kind = "EndEffectorCommand"

\* getJointPositionsVec that does not look at the type of a step.
getJointPositionsVec_EveryStep(s) ==
    [i \in 1..Len(s.commands) |-> s.commands[i].payload]

\* The loop over commands pushes joint_positions of the steps that hold a
\* MotionCommand.
getJointPositionsVec(s) ==
    LET m == SelectSeq(s.commands, IsMotion)
    IN  [i \in 1..Len(m) |-> m[i].payload]

\* std::visit pushes the timeout of every step.
getTimeoutVec(s) == [i \in 1..Len(s.commands) |-> s.commands[i].timeout]

\* The loop pushes the label of ee_action of the steps that hold an
\* EndEffectorCommand.
getEEActionsVecStr(s) ==
    LET m == SelectSeq(s.commands, IsEndEffector)
    IN  [i \in 1..Len(m) |-> EndEffectorActionToString(m[i].payload)]

\* -------------------------------------------------------------- Controller
\* static std::atomic<uint32_t> commandId{0}; return ++commandId;
GenerateCommandId(commandId) == U32Inc(commandId)

\* A timer: whether it is armed and the ticks left until it expires.  The
\* aggregate timer stands for action_start_time_ + total_timeout - now.
TimerOff == [armed |-> FALSE, left |-> 0]
Armed(ticks) == [armed |-> TRUE, left |-> ticks]
Expired(timer) == timer.armed /\ timer.left = 0
Outlive(timer) == IF timer.armed THEN Armed(0) ELSE timer
Elapse(timer) == IF timer.armed /\ timer.left > 0 THEN [timer EXCEPT !.left = @ - 1] ELSE timer

NewController(mode) ==
    [mode_ |-> mode, cmd_ |-> Null, running_ |-> FALSE, network_ |-> Null,
     waiting_callback_ |-> NoCallback,
     step_timer |-> TimerOff, agg_timer |-> TimerOff,
     accepted |-> 0, calls |-> 0]

\* BindNetwork that refuses a null handle only.
BindNetwork_WhileRunning(k, network) ==
    IF network = Null
    THEN [k |-> k, res |-> "false"]
    ELSE [k |-> [k EXCEPT !.network_ = network], res |-> "true"]

\* BindNetwork on the Controller k: the Controller after the call and the
\* value returned.
BindNetwork(k, network) ==
    IF network = Null \/ k.running_
    THEN [k |-> k, res |-> "false"]
    ELSE [k |-> [k EXCEPT !.network_ = network], res |-> "true"]

\* The operations below transform x = [k, s, tx, id, res]: the Controller k,
\* the sequence s it works on, the log tx of the step indices handed to the
\* transport for s, the process-wide id counter and the call's outcome.

\* SendCommand that hands a refused step over a second time.
SendCommand_Retries(x, ok) ==
    IF CurrentThrows(x.s) THEN [x EXCEPT !.res = "IndexOutOfRange"]
    ELSE IF x.k.network_ = Null THEN [x EXCEPT !.res = "NetworkFailure"]
    ELSE IF ~ok THEN [x EXCEPT !.tx = @ \o <<x.s.current_index, x.s.current_index>>,
                               !.res = "NetworkFailure"]
    ELSE [x EXCEPT !.tx = Append(@, x.s.current_index),
                   !.s.status = kWaiting,
                   !.k.step_timer = Armed(Current(x.s).timeout)]

\* SendCommand: transmit Current(); ok is the transport's answer.
SendCommand(x, ok) ==
    IF CurrentThrows(x.s) THEN [x EXCEPT !.res = "IndexOutOfRange"]
    ELSE IF x.k.network_ = Null THEN [x EXCEPT !.res = "NetworkFailure"]
    ELSE IF ~ok THEN [x EXCEPT !.tx = Append(@, x.s.current_index),
                               !.res = "NetworkFailure"]
    ELSE [x EXCEPT !.tx = Append(@, x.s.current_index),
                   !.s.status = kWaiting,
                   !.k.step_timer = Armed(Current(x.s).timeout)]

\* FinishMotion that leaves the running flag set.
FinishMotionNotify_StaysRunning(x) ==
    [x EXCEPT !.s.finished = TRUE,
              !.k.calls = IF x.k.waiting_callback_ # NoCallback THEN @ + 1 ELSE @]

\* FinishMotion, first half: completion, running flag, callback.
FinishMotionNotify(x) ==
    [x EXCEPT !.s.finished = TRUE,
              !.k.running_ = FALSE,
              !.k.calls = IF x.k.waiting_callback_ # NoCallback THEN @ + 1 ELSE @]

\* FinishMotion, second half: the Controller lets go of the sequence.  No timer
\* is cancelled.  How long a timer that outlives its sequence still has to
\* run is not tracked: from here on it is due.
FinishMotionRelease(x) ==
    [x EXCEPT !.k.cmd_ = Null,
              !.k.step_timer = Outlive(@),
              !.k.agg_timer = Outlive(@)]

FinishMotion(x) == FinishMotionRelease(FinishMotionNotify(x))

\* StartMotion that arms no aggregate timer.
StartMotion_NoAggregateTimer(x, cmd, ok) ==
    LET id == GenerateCommandId(x.id) IN
    SendCommand([x EXCEPT !.id = id,
                          !.s.cmd_id = id,
                          !.s.status = kSending,
                          !.k.cmd_ = cmd,
                          !.k.running_ = TRUE,
                          !.k.accepted = @ + 1], ok)

StartMotion(x, cmd, ok) ==
    LET id == GenerateCommandId(x.id) IN
    SendCommand([x EXCEPT !.id = id,
                          !.s.cmd_id = id,
                          !.s.status = kSending,
                          !.k.cmd_ = cmd,
                          !.k.running_ = TRUE,
                          !.k.agg_timer = Armed(x.s.total_timeout),
                          !.k.accepted = @ + 1], ok)

\* ExecuteMotion that takes over the caller's mode instead of refusing it.
ExecuteMotion_RemapsMode(x, controller_mode, cmd, ok) ==
    IF x.k.running_
    THEN [x EXCEPT !.res = "InvalidOperation"]
    ELSE StartMotion([x EXCEPT !.k.mode_ = controller_mode], cmd, ok)

\* ExecuteMotion that takes hold of the sequence before it checks.
ExecuteMotion_HoldsBeforeCheck(x, controller_mode, cmd, ok) ==
    IF x.k.running_ \/ ~ModeEq(controller_mode, x.k.mode_)
    THEN [x EXCEPT !.k.cmd_ = cmd, !.res = "InvalidOperation"]
    ELSE StartMotion(x, cmd, ok)

ExecuteMotion(x, controller_mode, cmd, ok) ==
    IF x.k.running_ \/ ~ModeEq(controller_mode, x.k.mode_)
    THEN [x EXCEPT !.res = "InvalidOperation"]
    ELSE StartMotion(x, cmd, ok)

\* A status sink that takes waiting for an acknowledgement and stops the
\* per-step timer.
StatusUpdate_WaitingDisarms(x, raw, ok) ==
    LET st == ToResponseStatus(raw) IN
    IF st = kUnknown THEN [x EXCEPT !.res = "unknown"]
    ELSE IF st = kSubSuccess
    THEN LET x1 == [x EXCEPT !.s = Advance(x.s)] IN
         IF HasNext(x1.s) THEN SendCommand(x1, ok)
         ELSE [x1 EXCEPT !.s.status = kSuccess, !.res = "finish"]
    ELSE IF IsActionFinished(st) THEN [x EXCEPT !.s.status = st, !.res = "finish"]
    ELSE [x EXCEPT !.k.step_timer = TimerOff]

\* The transport's status sink, up to its call of FinishMotion: the outcome
\* "finish" says that the handler goes on to call it.
StatusUpdate(x, raw, ok) ==
    LET st == ToResponseStatus(raw) IN
    IF st = kUnknown THEN [x EXCEPT !.res = "unknown"]
    ELSE IF st = kSubSuccess
    THEN LET x1 == [x EXCEPT !.s = Advance(x.s)] IN
         IF HasNext(x1.s) THEN SendCommand(x1, ok)
         ELSE [x1 EXCEPT !.s.status = kSuccess, !.res = "finish"]
    ELSE IF IsActionFinished(st) THEN [x EXCEPT !.s.status = st, !.res = "finish"]
    ELSE x

\* A per-step expiry that is taken for a failure of the step.
StepTimerExpiry_Fail(x) ==
    [x EXCEPT !.s.status = kFail, !.k.step_timer = TimerOff, !.res = "finish"]

StepTimerExpiry(x) ==
    [x EXCEPT !.s.status = kTimeout, !.k.step_timer = TimerOff, !.res = "finish"]

\* An aggregate expiry that waits for the step in flight.
AggTimerExpiry_WaitsForStep(x) ==
    IF x.k.step_timer.armed /\ x.k.step_timer.left > 0
    THEN [x EXCEPT !.k.agg_timer = TimerOff]
    ELSE [x EXCEPT !.s.status = kTimeout, !.k.agg_timer = TimerOff, !.res = "finish"]

AggTimerExpiry(x) ==
    [x EXCEPT !.s.status = kTimeout, !.k.agg_timer = TimerOff, !.res = "finish"]

\* A handler that runs to its end on its thread, undisturbed.
ThenFinish(y) == IF y.res = "finish" THEN FinishMotion([y EXCEPT !.res = "ok"]) ELSE y

OnStatus(x, raw, ok) == ThenFinish(StatusUpdate(x, raw, ok))

OnStepTimer(x) == ThenFinish(StepTimerExpiry(x))

OnAggTimer(x) == ThenFinish(AggTimerExpiry(x))

\* ------------------------------------------------------------------- state
VARIABLES seq, ctl, commandId, sent, ev, pc

vars == <<seq, ctl, commandId, sent, ev, pc>>

\* The threads that get to the Controller, and where each of them stands.
HandlerThreads == {"transport", "step_timer", "agg_timer"}
CallerThreads == {"callerA", "callerB"}
Threads == HandlerThreads \cup CallerThreads

\* The last operation and its outcome.
Event(kind, res) == [kind |-> kind, res |-> res]

Init ==
    /\ seq = << >>
    /\ ctl = [c \in AllControllers |->
                NewController(IF c = "c1" THEN JointPosition ELSE TaskCommand)]
    /\ commandId = U32(0)
    /\ sent = [h \in Handles |-> << >>]
    /\ ev = Event("Init", "ok")
    /\ pc = [t \in Threads |-> "idle"]

Created == DOMAIN seq

\* The transformer's argument for Controller c working on handle h.
Pack(c, h) == [k |-> ctl[c], s |-> seq[h], tx |-> sent[h], id |-> commandId, res |-> "ok"]

Unpack(c, h, x) ==
    /\ ctl' = [ctl EXCEPT ![c] = x.k]
    /\ seq' = [seq EXCEPT ![h] = x.s]
    /\ sent' = [sent EXCEPT ![h] = x.tx]
    /\ commandId' = x.id

\* ----------------------------------------------------------------- actions
\* Handles are interchangeable and creating one commutes with every other
\* operation, so h2 is created once h1 has been dispatched.
DoCreateCommands(h, list, total) ==
    /\ h \notin Created
    /\ h = "h2" => ("h1" \in Created /\ seq["h1"].status # kIdle)
    /\ LET r == CreateCommands(list, total) IN
       /\ seq' = IF r.ok THEN seq @@ (h :> r.cmd) ELSE seq
       /\ ev' = Event("CreateCommands", IF r.ok THEN "ok" ELSE "ConstructorException")
    /\ UNCHANGED <<ctl, commandId, sent, pc>>

DoCreateCommand(h, command) ==
    /\ h \notin Created
    /\ h = "h2" => ("h1" \in Created /\ seq["h1"].status # kIdle)
    /\ seq' = seq @@ (h :> CreateCommand(command))
    /\ ev' = Event("CreateCommand", "ok")
    /\ UNCHANGED <<ctl, commandId, sent, pc>>

DoSetWaitingCallback(c, cb) ==
    /\ ctl' = [ctl EXCEPT ![c].waiting_callback_ = cb]
    /\ ev' = Event("SetWaitingCallback", "ok")
    /\ UNCHANGED <<seq, commandId, sent, pc>>

DoBindNetwork(c, network) ==
    /\ LET r == BindNetwork(ctl[c], network) IN
       /\ ev' = Event("BindNetwork", r.res)
       /\ ctl' = [ctl EXCEPT ![c] = r.k]
    /\ UNCHANGED <<seq, commandId, sent, pc>>

\* Callers bind a network and register a callback before they execute.
DoExecuteMotion(c, m, h, ok) ==
    /\ h \in Created
    /\ ctl[c].network_ # Null
    /\ ctl[c].waiting_callback_ # NoCallback
    /\ LET x == ExecuteMotion(Pack(c, h), m, h, ok) IN
       /\ x.id.hi = 0 /\ x.id.lo <= MaxId
       /\ Unpack(c, h, x)
       /\ ev' = Event("ExecuteMotion", x.res)
    /\ UNCHANGED pc

\* A status update delivered to the sink of Controller c.
DoStatus(c, raw, ok) ==
    /\ IF ctl[c].cmd_ = Null
       THEN /\ ev' = Event("Status", "dropped")
            /\ UNCHANGED <<seq, ctl, commandId, sent>>
       ELSE LET h == ctl[c].cmd_
                x == OnStatus(Pack(c, h), raw, ok) IN
            /\ Unpack(c, h, x)
            /\ ev' = Event("Status", x.res)
    /\ UNCHANGED pc

DoStepTimer(c) ==
    /\ Expired(ctl[c].step_timer)
    /\ IF ctl[c].cmd_ = Null
       THEN /\ ctl' = [ctl EXCEPT ![c].step_timer = TimerOff]
            /\ ev' = Event("StepTimer", "dropped")
            /\ UNCHANGED <<seq, commandId, sent>>
       ELSE LET h == ctl[c].cmd_
                x == OnStepTimer(Pack(c, h)) IN
            /\ Unpack(c, h, x)
            /\ ev' = Event("StepTimer", x.res)
    /\ UNCHANGED pc

DoAggTimer(c) ==
    /\ Expired(ctl[c].agg_timer)
    /\ IF ctl[c].cmd_ = Null
       THEN /\ ctl' = [ctl EXCEPT ![c].agg_timer = TimerOff]
            /\ ev' = Event("AggTimer", "dropped")
            /\ UNCHANGED <<seq, commandId, sent>>
       ELSE LET h == ctl[c].cmd_
                x == OnAggTimer(Pack(c, h)) IN
            /\ Unpack(c, h, x)
            /\ ev' = Event("AggTimer",
                           IF ctl[c].step_timer.armed /\ ctl[c].step_timer.left > 0
                           THEN "preempt" ELSE x.res)
    /\ UNCHANGED pc

\* One tick of the clock: every armed timer that has not expired comes one
\* tick closer to its deadline.
Tick ==
    /\ \E c \in AllControllers :
          \/ ctl[c].step_timer.armed /\ ctl[c].step_timer.left > 0
          \/ ctl[c].agg_timer.armed /\ ctl[c].agg_timer.left > 0
    /\ ctl' = [c \in AllControllers |->
                 [ctl[c] EXCEPT !.step_timer = Elapse(@), !.agg_timer = Elapse(@)]]
    /\ ev' = Event("Tick", "ok")
    /\ UNCHANGED <<seq, commandId, sent, pc>>

\* What the transport answers to a handoff, where the operation hands a step
\* over at all.
HandoffOutcomes(sends) == IF sends THEN BOOLEAN ELSE {TRUE}

\* The codes the transport delivers.  A Controller that holds no sequence
\* drops every update alike: one code stands for all of them.
StatusCodes(c) == IF ctl[c].cmd_ = Null THEN {kSuccess} ELSE RawCodes

Next ==
    \/ \E h \in Handles, l \in CommandLists \cup {TooLongList}, t \in TotalTimeouts :
          DoCreateCommands(h, l, t)
    \/ \E h \in Handles, command \in SingleCommands : DoCreateCommand(h, command)
    \/ \E c \in Controllers, cb \in Callbacks : DoSetWaitingCallback(c, cb)
    \/ \E c \in Controllers, n \in Networks \cup {Null} : DoBindNetwork(c, n)
    \/ \E c \in Controllers, m \in ControllerMode, h \in Handles :
          \E ok \in HandoffOutcomes(~ctl[c].running_ /\ m = ctl[c].mode_) :
             DoExecuteMotion(c, m, h, ok)
    \/ \E c \in Controllers :
          \E raw \in StatusCodes(c) :
             \E ok \in HandoffOutcomes(raw = kSubSuccess) : DoStatus(c, raw, ok)
    \/ \E c \in Controllers : DoStepTimer(c)
    \/ \E c \in Controllers : DoAggTimer(c)
    \/ Tick

Spec == Init /\ [][Next]_vars

\* ---------------------------------------------------- handlers on threads
\* The Controller declares no lock and its running flag and sequence pointer
\* are plain members: a handler on the transport thread and the two timer
\* handlers interleave between reading the Controller's state, the first half
\* of FinishMotion and its second half.

\* The caller is done with its set-up: a network is bound, a callback is
\* registered, the sequences are made.
ReadySequences ==
    {CreateCommands(l, t).cmd : l \in CommandLists \ {<< >>}, t \in TotalTimeouts}
        \cup {CreateCommand(command) : command \in SingleCommands}

ReadyController(mode) ==
    [NewController(mode) EXCEPT !.network_ = "net1", !.waiting_callback_ = "cb1"]

InitReady(handles) ==
    /\ seq \in [handles -> ReadySequences]
    /\ ctl = [c \in AllControllers |->
                IF c = "c1" THEN ReadyController(JointPosition)
                ELSE NewController(TaskCommand)]
    /\ commandId = U32(0)
    /\ sent = [h \in Handles |-> << >>]
    /\ ev = Event("Init", "ok")
    /\ pc = [t \in Threads |-> "idle"]

InitThreads == InitReady({"h1"})

\* The caller's thread, through the facade: it calls between two handlers.
CallerExecuteMotion(c, m, h, ok) ==
    /\ \A t \in HandlerThreads : pc[t] = "idle"
    /\ DoExecuteMotion(c, m, h, ok)

TransportBegin(c, raw, ok) ==
    /\ pc["transport"] = "idle"
    /\ IF ctl[c].cmd_ = Null
       THEN /\ ev' = Event("Status", "dropped")
            /\ UNCHANGED <<seq, ctl, commandId, sent, pc>>
       ELSE LET h == ctl[c].cmd_
                y == StatusUpdate(Pack(c, h), raw, ok) IN
            /\ Unpack(c, h, y)
            /\ ev' = Event("Status", y.res)
            /\ pc' = IF y.res = "finish" THEN [pc EXCEPT !["transport"] = "notify"] ELSE pc

StepTimerBegin(c) ==
    /\ pc["step_timer"] = "idle"
    /\ Expired(ctl[c].step_timer)
    /\ IF ctl[c].cmd_ = Null
       THEN /\ ctl' = [ctl EXCEPT ![c].step_timer = TimerOff]
            /\ ev' = Event("StepTimer", "dropped")
            /\ UNCHANGED <<seq, commandId, sent, pc>>
       ELSE LET h == ctl[c].cmd_ IN
            /\ Unpack(c, h, StepTimerExpiry(Pack(c, h)))
            /\ ev' = Event("StepTimer", "finish")
            /\ pc' = [pc EXCEPT !["step_timer"] = "notify"]

AggTimerBegin(c) ==
    /\ pc["agg_timer"] = "idle"
    /\ Expired(ctl[c].agg_timer)
    /\ IF ctl[c].cmd_ = Null
       THEN /\ ctl' = [ctl EXCEPT ![c].agg_timer = TimerOff]
            /\ ev' = Event("AggTimer", "dropped")
            /\ UNCHANGED <<seq, commandId, sent, pc>>
       ELSE LET h == ctl[c].cmd_ IN
            /\ Unpack(c, h, AggTimerExpiry(Pack(c, h)))
            /\ ev' = Event("AggTimer", "finish")
            /\ pc' = [pc EXCEPT !["agg_timer"] = "notify"]

\* First half of FinishMotion on thread t.  When another thread has let go of
\* the sequence in the meantime, the write through the empty pointer is
\* undefined: the process stops, or the write is lost and the thread goes on.
ThreadNotify(t, c) ==
    /\ pc[t] = "notify"
    /\ IF ctl[c].cmd_ # Null
       THEN LET h == ctl[c].cmd_ IN
            /\ Unpack(c, h, FinishMotionNotify(Pack(c, h)))
            /\ ev' = Event("FinishMotion", "notify")
            /\ pc' = [pc EXCEPT ![t] = "release"]
       ELSE \E goes_on \in BOOLEAN :
            IF goes_on
            THEN /\ ctl' = [ctl EXCEPT ![c].running_ = FALSE,
                                        ![c].calls = @ + 1]
                 /\ ev' = Event("FinishMotion", "notify")
                 /\ pc' = [pc EXCEPT ![t] = "release"]
                 /\ UNCHANGED <<seq, commandId, sent>>
            ELSE /\ ev' = Event("FinishMotion", "stopped")
                 /\ pc' = [u \in Threads |-> "stopped"]
                 /\ UNCHANGED <<seq, ctl, commandId, sent>>

\* Second half of FinishMotion on thread t.
ThreadRelease(t, c) ==
    /\ pc[t] = "release"
    /\ ctl' = [ctl EXCEPT ![c].cmd_ = Null,
                          ![c].step_timer = Outlive(@),
                          ![c].agg_timer = Outlive(@)]
    /\ ev' = Event("FinishMotion", "release")
    /\ pc' = [pc EXCEPT ![t] = "idle"]
    /\ UNCHANGED <<seq, commandId, sent>>

NextThreads ==
    \/ \E c \in Controllers, m \in ControllerMode, h \in Handles, ok \in BOOLEAN :
          CallerExecuteMotion(c, m, h, ok)
    \/ \E c \in Controllers, raw \in RawCodes, ok \in BOOLEAN : TransportBegin(c, raw, ok)
    \/ \E c \in Controllers : StepTimerBegin(c)
    \/ \E c \in Controllers : AggTimerBegin(c)
    \/ \E t \in HandlerThreads, c \in Controllers : ThreadNotify(t, c)
    \/ \E t \in HandlerThreads, c \in Controllers : ThreadRelease(t, c)
    \/ Tick

SpecThreads == InitThreads /\ [][NextThreads]_vars

\* ------------------------------------------------- callers without the facade
\* Two threads call ExecuteMotion on the same Controller, each with a sequence
\* of its own.  The running flag is a plain bool: a caller reads it, and
\* writes it in StartMotion, with nothing to keep the other caller out.
HandleOf(t) == IF t = "callerA" THEN "h1" ELSE "h2"

InitDirect == InitReady({"h1", "h2"})

CallerCheck(t, c, m) ==
    /\ pc[t] = "idle"
    /\ IF ctl[c].running_ \/ ~ModeEq(m, ctl[c].mode_)
       THEN /\ ev' = Event("ExecuteMotion", "InvalidOperation")
            /\ pc' = [pc EXCEPT ![t] = "done"]
       ELSE /\ ev' = Event("ExecuteMotion", "checked")
            /\ pc' = [pc EXCEPT ![t] = "start"]
    /\ UNCHANGED <<seq, ctl, commandId, sent>>

CallerStart(t, c, ok) ==
    /\ pc[t] = "start"
    /\ LET h == HandleOf(t)
           x == StartMotion(Pack(c, h), h, ok) IN
       /\ Unpack(c, h, x)
       /\ ev' = Event("ExecuteMotion", x.res)
    /\ pc' = [pc EXCEPT ![t] = "done"]

NextDirect ==
    \/ \E t \in CallerThreads, c \in Controllers, m \in ControllerMode : CallerCheck(t, c, m)
    \/ \E t \in CallerThreads, c \in Controllers, ok \in BOOLEAN : CallerStart(t, c, ok)
    \/ \E c \in Controllers, raw \in RawCodes, ok \in BOOLEAN : DoStatus(c, raw, ok)
    \/ \E c \in Controllers : DoStepTimer(c)
    \/ \E c \in Controllers : DoAggTimer(c)
    \/ Tick

SpecDirect == InitDirect /\ [][NextDirect]_vars

\* ------------------------------------------------- functions on their own
\* The free functions and factories, called with every input of a range; the
\* call, its argument and what it returned are kept in ev.
Call(kind, arg, res) == [kind |-> kind, arg |-> arg, res |-> res]

CalledCodes == (0..MaxCode) \cup {255, 65535, 65536, 2147483647}

Variants(n) == [i \in 1..n |-> StepOf(i)]

\* The command types as the public interface makes them.  A joint target and
\* a torque array are kept as a name; timeouts are whole seconds.  The
\* factory of MotionCommand and the aggregate initialisation of the other two
\* take any double as timeout.
JointTargets == {"q1", "q2"}
Torques == {"tau1"}
EndEffectorAction == 0..3
TimeoutInputs == {-1, 0, 1, 2, 30}

MotionCommand(joint_positions, timeout_s) ==
    [kind |-> "MotionCommand", payload |-> joint_positions, timeout |-> timeout_s]

TorqueCommand(desired_torque, timeout) ==
    [kind |-> "TorqueCommand", payload |-> desired_torque, timeout |-> timeout]

EndEffectorCommand(ee_action, timeout) ==
    [kind |-> "EndEffectorCommand", payload |-> ee_action, timeout |-> timeout]

MadeCommands ==
    {MotionCommand(q, t) : q \in JointTargets, t \in TimeoutInputs}
      \cup {TorqueCommand(tau, t) : tau \in Torques, t \in TimeoutInputs}
      \cup {EndEffectorCommand(a, t) : a \in EndEffectorAction, t \in TimeoutInputs}

CallCreateCommand(c) ==
    /\ ev' = Call("CreateCommand", c, CreateCommand(c))
    /\ UNCHANGED <<seq, ctl, commandId, sent, pc>>

CallToResponseStatus(result) ==
    /\ ev' = Call("ToResponseStatus", result, ToResponseStatus(result))
    /\ UNCHANGED <<seq, ctl, commandId, sent, pc>>

CallCreateCommands(sequence, total_timeout_s) ==
    /\ ev' = Call("CreateCommands", sequence, CreateCommands(sequence, total_timeout_s))
    /\ UNCHANGED <<seq, ctl, commandId, sent, pc>>

NextCalls ==
    \/ \E result \in CalledCodes : CallToResponseStatus(result)
    \/ \E n \in 0..MaxVariants, t \in TotalTimeouts \cup {0, 30} :
          CallCreateCommands(Variants(n), t)
    \/ \E c \in MadeCommands : CallCreateCommand(c)

SpecCalls == Init /\ [][NextCalls]_vars

\* ------------------------------------------------------ projection helpers
\* Sequences that mix the three command types, with the cursor anywhere; a
\* caller advances the cursor and calls the three getters.
MixedCommands ==
    {MotionCommand("q1", 1), MotionCommand("q2", 2), TorqueCommand("tau1", 2),
     EndEffectorCommand(1, 1), EndEffectorCommand(3, 30)}

MixedLists == UNION {[1..n -> MixedCommands] : n \in 1..MaxLen}

InitProject ==
    /\ seq \in [{"h1"} -> {CreateCommands(l, t).cmd : l \in MixedLists, t \in TotalTimeouts}]
    /\ ctl = [c \in AllControllers |->
                NewController(IF c = "c1" THEN JointPosition ELSE TaskCommand)]
    /\ commandId = U32(0)
    /\ sent = [h \in Handles |-> << >>]
    /\ ev = Event("Init", "ok")
    /\ pc = [t \in Threads |-> "idle"]

ProjectAdvance(h) ==
    /\ HasNext(seq[h])
    /\ seq' = [seq EXCEPT ![h] = Advance(@)]
    /\ ev' = Call("Advance", seq[h], "ok")
    /\ UNCHANGED <<ctl, commandId, sent, pc>>

CallGetJointPositionsVec(h) ==
    /\ ev' = Call("getJointPositionsVec", seq[h], getJointPositionsVec(seq[h]))
    /\ UNCHANGED <<seq, ctl, commandId, sent, pc>>

CallGetTimeoutVec(h) ==
    /\ ev' = Call("getTimeoutVec", seq[h], getTimeoutVec(seq[h]))
    /\ UNCHANGED <<seq, ctl, commandId, sent, pc>>

CallGetEEActionsVecStr(h) ==
    /\ ev' = Call("getEEActionsVecStr", seq[h], getEEActionsVecStr(seq[h]))
    /\ UNCHANGED <<seq, ctl, commandId, sent, pc>>

NextProject ==
    \/ \E h \in Created : ProjectAdvance(h)
    \/ \E h \in Created : CallGetJointPositionsVec(h)
    \/ \E h \in Created : CallGetTimeoutVec(h)
    \/ \E h \in Created : CallGetEEActionsVecStr(h)

SpecProject == InitProject /\ [][NextProject]_vars

\* ------------------------------------------------- the id counter on threads
\* Threads call GenerateCommandId, each once.  The increment is one atomic
\* step of std::atomic<uint32_t>; a call starts before it and returns after
\* it.  The process is young (counter 0) or old (counter three short of 2^32).
MaxU32 == [hi |-> Half - 1, lo |-> Half - 1]
OldCounter == [hi |-> Half - 1, lo |-> Half - 3]
Counters == {U32(0), OldCounter}

\* The threads that call it.
IdThreads == {"transport", "callerA", "callerB"}

\* The values returned by the calls that have completed.
Returned == {pc[t].ret : t \in {u \in Threads : pc[u].at = "returned"}}

InitIds ==
    /\ seq = << >>
    /\ ctl = [c \in AllControllers |->
                NewController(IF c = "c1" THEN JointPosition ELSE TaskCommand)]
    /\ commandId \in Counters
    /\ sent = [h \in Handles |-> << >>]
    /\ ev = Event("Init", "ok")
    /\ pc = [t \in Threads |-> [at |-> "idle", before |-> {}, ret |-> U32(0)]]

GenCall(t) ==
    /\ pc[t].at = "idle"
    /\ pc' = [pc EXCEPT ![t] = [at |-> "called", before |-> Returned, ret |-> U32(0)]]
    /\ UNCHANGED <<seq, ctl, commandId, sent, ev>>

GenIncrement(t) ==
    /\ pc[t].at = "called"
    /\ commandId' = GenerateCommandId(commandId)
    /\ pc' = [pc EXCEPT ![t].at = "incremented", ![t].ret = commandId']
    /\ UNCHANGED <<seq, ctl, sent, ev>>

GenReturn(t) ==
    /\ pc[t].at = "incremented"
    /\ pc' = [pc EXCEPT ![t].at = "returned"]
    /\ UNCHANGED <<seq, ctl, commandId, sent, ev>>

NextIds ==
    \/ \E t \in IdThreads : GenCall(t)
    \/ \E t \in IdThreads : GenIncrement(t)
    \/ \E t \in IdThreads : GenReturn(t)

SpecIds == InitIds /\ [][NextIds]_vars

\* ------------------------------------------------------ rebinding a network
\* A caller that is set up keeps executing its sequence and, at any moment,
\* binds the Controller to a network again: to the one bound, to another
\* one, or to null.
OtherNetworks == {"net2"}

NextRebind ==
    \/ \E c \in Controllers, n \in Networks \cup OtherNetworks \cup {Null} :
          DoBindNetwork(c, n)
    \/ \E c \in Controllers, m \in ControllerMode, h \in Handles :
          \E ok \in HandoffOutcomes(~ctl[c].running_ /\ m = ctl[c].mode_) :
             DoExecuteMotion(c, m, h, ok)
    \/ \E c \in Controllers :
          \E raw \in StatusCodes(c) :
             \E ok \in HandoffOutcomes(raw = kSubSuccess) : DoStatus(c, raw, ok)
    \/ \E c \in Controllers : DoStepTimer(c)
    \/ \E c \in Controllers : DoAggTimer(c)
    \/ Tick

SpecRebind == InitThreads /\ [][NextRebind]_vars

\* ------------------------------------------------------- timers that fire
\* A caller that is set up executes its sequence.  The clock goes on and a
\* timer that has expired fires; nothing is assumed of the transport: it may
\* deliver any status at any moment, or none at all, and may refuse any
\* handoff.
NextRun ==
    \/ \E c \in Controllers, m \in ControllerMode, h \in Handles :
          \E ok \in HandoffOutcomes(~ctl[c].running_ /\ m = ctl[c].mode_) :
             DoExecuteMotion(c, m, h, ok)
    \/ \E c \in Controllers :
          \E raw \in StatusCodes(c) :
             \E ok \in HandoffOutcomes(raw = kSubSuccess) : DoStatus(c, raw, ok)
    \/ \E c \in Controllers : DoStepTimer(c)
    \/ \E c \in Controllers : DoAggTimer(c)
    \/ Tick

TimersFire ==
    /\ WF_vars(Tick)
    /\ \A c \in Controllers : WF_vars(DoStepTimer(c)) /\ WF_vars(DoAggTimer(c))

SpecTimersFire == InitThreads /\ [][NextRun]_vars /\ TimersFire

\* ------------------------------------------------- the cursor on threads
\* The sequence is shared (std::shared_ptr<RobotCommand>) and HasNext, Current
\* and Advance are public: the caller's threads call them while the
\* transport's thread advances the cursor on a sub-success.  Advance reads the
\* atomic cursor in its condition and increments it in a second atomic step.
InitCursor == InitReady({"h1"})

CursorHasNext(t, h) ==
    /\ pc[t] = "idle"
    /\ ev' = Event("HasNext", IF HasNext(seq[h]) THEN "true" ELSE "false")
    /\ UNCHANGED <<seq, ctl, commandId, sent, pc>>

CursorCurrent(t, h) ==
    /\ pc[t] = "idle"
    /\ ev' = Event("Current", IF CurrentThrows(seq[h]) THEN "ControlException"
                              ELSE Current(seq[h]).kind)
    /\ UNCHANGED <<seq, ctl, commandId, sent, pc>>

\* if (current_index < commands.size())
AdvanceCheck(t, h) ==
    /\ pc[t] = "idle"
    /\ IF seq[h].current_index < Len(seq[h].commands)
       THEN /\ pc' = [pc EXCEPT ![t] = "increment"]
            /\ UNCHANGED ev
       ELSE /\ ev' = Event("Advance", "unchanged")
            /\ UNCHANGED pc
    /\ UNCHANGED <<seq, ctl, commandId, sent>>

\* ++current_index
AdvanceIncrement(t, h) ==
    /\ pc[t] = "increment"
    /\ seq' = [seq EXCEPT ![h].current_index = @ + 1]
    /\ pc' = [pc EXCEPT ![t] = "idle"]
    /\ ev' = Event("Advance", "advanced")
    /\ UNCHANGED <<ctl, commandId, sent>>

NextCursor ==
    \/ \E t \in IdThreads, h \in Created : CursorHasNext(t, h)
    \/ \E t \in IdThreads, h \in Created : CursorCurrent(t, h)
    \/ \E t \in IdThreads, h \in Created : AdvanceCheck(t, h)
    \/ \E t \in IdThreads, h \in Created : AdvanceIncrement(t, h)

SpecCursor == InitCursor /\ [][NextCursor]_vars

\* ------------------------------------------------- one thread iterating
\* Each caller walks a fresh sequence of its own with HasNext, Current and
\* Advance, one call after the other; pc counts the Advance calls it made.
InitIterate ==
    /\ seq \in [Handles -> ReadySequences]
    /\ ctl = [c \in AllControllers |->
                NewController(IF c = "c1" THEN JointPosition ELSE TaskCommand)]
    /\ commandId = U32(0)
    /\ sent = [h \in Handles |-> << >>]
    /\ ev = Event("Init", "ok")
    /\ pc = [t \in Threads |-> 0]

IterateHasNext(h) ==
    /\ ev' = [kind |-> "HasNext", h |-> h,
              res |-> IF HasNext(seq[h]) THEN "true" ELSE "false"]
    /\ UNCHANGED <<seq, ctl, commandId, sent, pc>>

IterateCurrent(h) ==
    /\ ev' = Event("Current", IF CurrentThrows(seq[h]) THEN "ControlException"
                              ELSE Current(seq[h]).kind)
    /\ UNCHANGED <<seq, ctl, commandId, sent, pc>>

IterateAdvance(t, h) ==
    /\ pc[t] <= MaxLen
    /\ seq' = [seq EXCEPT ![h] = Advance(seq[h])]
    /\ pc' = [pc EXCEPT ![t] = @ + 1]
    /\ ev' = Event("Advance", IF seq'[h] = seq[h] THEN "unchanged" ELSE "advanced")
    /\ UNCHANGED <<ctl, commandId, sent>>

NextIterate ==
    \/ \E h \in Created : IterateHasNext(h)
    \/ \E h \in Created : IterateCurrent(h)
    \/ \E t \in CallerThreads : IterateAdvance(t, HandleOf(t))

SpecIterate == InitIterate /\ [][NextIterate]_vars

\* ------------------------------------------------- a long-lived process
\* Two Controllers serve one process, set up and ready; the process is young
\* (counter 0) or has dispatched 2^32 - 3 sequences already.  Sequences are
\* executed, finish on a terminal status, and are executed again.
MaxAccepted == 3

InitLongRun ==
    /\ seq \in [Handles -> {CreateCommands(Variants(2), t).cmd : t \in TotalTimeouts}]
    /\ ctl = [c \in AllControllers |->
                ReadyController(IF c = "c1" THEN JointPosition ELSE TaskCommand)]
    /\ commandId \in Counters
    /\ sent = [h \in Handles |-> << >>]
    /\ ev = Event("Init", "ok")
    /\ pc = [t \in Threads |-> "idle"]

Accepted == ctl["c1"].accepted + ctl["c2"].accepted

\* ExecuteMotion on Controller c with the handle h, which no Controller holds.
LongRunExecuteMotion(c, m, h, ok) ==
    /\ Accepted < MaxAccepted
    /\ \A d \in AllControllers : ctl[d].cmd_ # h
    /\ LET x == ExecuteMotion(Pack(c, h), m, h, ok) IN
       /\ Unpack(c, h, x)
       /\ ev' = Event("ExecuteMotion", x.res)
    /\ UNCHANGED pc

LongRunStatus(c, raw, ok) ==
    /\ ctl[c].cmd_ # Null
    /\ DoStatus(c, raw, ok)

NextLongRun ==
    \/ \E c \in AllControllers, m \in {JointPosition, TaskCommand}, h \in Handles :
         \E ok \in BOOLEAN : LongRunExecuteMotion(c, m, h, ok)
    \/ \E c \in AllControllers, raw \in {kSubSuccess, kSuccess, kFail} :
         \E ok \in HandoffOutcomes(raw = kSubSuccess) : LongRunStatus(c, raw, ok)

SpecLongRun == InitLongRun /\ [][NextLongRun]_vars

\* ------------------------------------------------- one sequence after another
\* One Controller executes sequence after sequence: each ends on whatever the
\* transport reports or on a timer, and the caller executes the next.
NextConsecutive ==
    \/ \E c \in Controllers, m \in {JointPosition, TaskCommand}, h \in Handles :
         \E ok \in HandoffOutcomes(~ctl[c].running_ /\ m = ctl[c].mode_) :
            LongRunExecuteMotion(c, m, h, ok)
    \/ \E c \in Controllers :
          \E raw \in StatusCodes(c) :
             \E ok \in HandoffOutcomes(raw = kSubSuccess) : DoStatus(c, raw, ok)
    \/ \E c \in Controllers : DoStepTimer(c)
    \/ \E c \in Controllers : DoAggTimer(c)
    \/ Tick

SpecConsecutive == InitLongRun /\ [][NextConsecutive]_vars

\* ------------------------------------------------- a handle passed twice
\* ExecuteMotion takes a std::shared_ptr<RobotCommand>: the caller keeps its
\* handle and may pass it to any Controller, whoever holds the sequence.
SharedExecuteMotion(c, m, h, ok) ==
    /\ Accepted < MaxAccepted
    /\ LET x == ExecuteMotion(Pack(c, h), m, h, ok) IN
       /\ Unpack(c, h, x)
       /\ ev' = Event("ExecuteMotion", x.res)
    /\ UNCHANGED pc

NextShared ==
    \/ \E c \in AllControllers, m \in {JointPosition, TaskCommand}, h \in Handles :
         \E ok \in BOOLEAN : SharedExecuteMotion(c, m, h, ok)
    \/ \E c \in AllControllers, raw \in {kSubSuccess, kSuccess, kFail} :
         \E ok \in HandoffOutcomes(raw = kSubSuccess) : LongRunStatus(c, raw, ok)

SpecShared == InitLongRun /\ [][NextShared]_vars

\* ------------------------------------------------- updates that repeat
\* The sink receives a sequence id and a raw code, not the step the code is
\* about.  Here the transport's sub-success updates are labelled with the
\* step they report on: the step in flight or, when an update is delivered
\* again, a step before it.  The Controller does not see the label.
TaggedEvent(res, about) == [kind |-> "Status", res |-> res, about |-> about]

TaggedSubSuccess(c, about, ok) ==
    /\ ctl[c].cmd_ # Null
    /\ LET h == ctl[c].cmd_
           x == OnStatus(Pack(c, h), kSubSuccess, ok) IN
       /\ seq[h].status = kWaiting
       /\ about <= seq[h].current_index
       /\ Unpack(c, h, x)
       /\ ev' = TaggedEvent(x.res, about)
    /\ UNCHANGED pc

NextTagged ==
    \/ \E c \in Controllers, m \in ControllerMode, h \in Handles :
          \E ok \in HandoffOutcomes(~ctl[c].running_ /\ m = ctl[c].mode_) :
             DoExecuteMotion(c, m, h, ok)
    \/ \E c \in Controllers, about \in 0..MaxLen, ok \in BOOLEAN :
          TaggedSubSuccess(c, about, ok)
    \/ \E c \in Controllers : DoStepTimer(c)
    \/ \E c \in Controllers : DoAggTimer(c)
    \/ Tick

SpecTagged == InitThreads /\ [][NextTagged]_vars

\* ------------------------------------------------- updates that come late
\* The sink receives the id of the sequence an update is about.  The
\* transport reports on the sequences dispatched so far: on the one that is
\* running or, late, on one that ran before.  The status handling acts on the
\* raw code for whatever sequence the Controller holds.
DispatchedIds == {seq[h].cmd_id : h \in {g \in Created : seq[g].status # kIdle}}

StatusFor(c, sequence_id, raw, ok) ==
    /\ sequence_id \in DispatchedIds
    /\ IF ctl[c].cmd_ = Null
       THEN /\ ev' = TaggedEvent("dropped", sequence_id)
            /\ UNCHANGED <<seq, ctl, commandId, sent>>
       ELSE LET h == ctl[c].cmd_
                x == OnStatus(Pack(c, h), raw, ok) IN
            /\ Unpack(c, h, x)
            /\ ev' = TaggedEvent(x.res, sequence_id)
    /\ UNCHANGED pc

NextLate ==
    \/ \E c \in Controllers, m \in {JointPosition, TaskCommand}, h \in Handles :
         \E ok \in HandoffOutcomes(~ctl[c].running_ /\ m = ctl[c].mode_) :
            LongRunExecuteMotion(c, m, h, ok)
    \/ \E c \in Controllers, raw \in {kWaiting, kSubSuccess, kSuccess, kFail} :
         \E sequence_id \in DispatchedIds :
            \E ok \in HandoffOutcomes(raw = kSubSuccess /\ ctl[c].cmd_ # Null) :
               StatusFor(c, sequence_id, raw, ok)

SpecLate == InitLongRun /\ [][NextLate]_vars

\* ------------------------------------------------- whose timer it is
\* The per-step timer is armed by SendCommand on a successful handoff.  Here
\* the timer thread remembers for which step the timer was armed last: the id
\* of the sequence and the index of the step.
NoStep == [id |-> U32(0), index |-> 0]

InitOwnTimer ==
    /\ seq \in [Handles -> {CreateCommands(Variants(2), t).cmd : t \in TotalTimeouts}]
    /\ ctl = [c \in AllControllers |->
                ReadyController(IF c = "c1" THEN JointPosition ELSE TaskCommand)]
    /\ commandId = U32(0)
    /\ sent = [h \in Handles |-> << >>]
    /\ ev = Event("Init", "ok")
    /\ pc = [t \in Threads |-> NoStep]

\* The step the timer is armed for after an operation with the result x on
\* the handle h: the step just handed over, where the handoff succeeded.
ArmedFor(x, h) ==
    IF x.tx # sent[h] /\ x.res = "ok"
    THEN [pc EXCEPT !["step_timer"] = [id |-> x.s.cmd_id, index |-> x.s.current_index]]
    ELSE pc

OwnTimerExecuteMotion(c, m, h, ok) ==
    /\ Accepted < MaxAccepted
    /\ \A d \in AllControllers : ctl[d].cmd_ # h
    /\ seq[h].status = kIdle
    /\ LET x == ExecuteMotion(Pack(c, h), m, h, ok) IN
       /\ Unpack(c, h, x)
       /\ ev' = Event("ExecuteMotion", x.res)
       /\ pc' = ArmedFor(x, h)

OwnTimerStatus(c, raw, ok) ==
    /\ ctl[c].cmd_ # Null
    /\ LET h == ctl[c].cmd_
           x == OnStatus(Pack(c, h), raw, ok) IN
       /\ Unpack(c, h, x)
       /\ ev' = Event("Status", x.res)
       /\ pc' = ArmedFor(x, h)

NextOwnTimer ==
    \/ \E c \in Controllers, m \in {JointPosition, TaskCommand}, h \in Handles :
         \E ok \in HandoffOutcomes(~ctl[c].running_ /\ m = ctl[c].mode_) :
            OwnTimerExecuteMotion(c, m, h, ok)
    \/ \E c \in Controllers, raw \in {kWaiting, kSubSuccess, kSuccess, kFail} :
         \E ok \in HandoffOutcomes(raw = kSubSuccess) : OwnTimerStatus(c, raw, ok)
    \/ \E c \in Controllers : DoStepTimer(c)
    \/ \E c \in Controllers : DoAggTimer(c)
    \/ Tick

SpecOwnTimer == InitOwnTimer /\ [][NextOwnTimer]_vars

\* ------------------------------------------------- a callback that executes
\* FinishMotion invokes the completion callback on the handler's thread after
\* it has cleared the running flag and before it lets go of the sequence.
\* Here the registered callback calls ExecuteMotion with the next sequence, a
\* fresh one, in the Controller's own mode.
NextHandle(h) == IF h = "h1" THEN "h2" ELSE "h1"

\* The status sink for the sequence h of Controller c, with the callback's
\* ExecuteMotion inside FinishMotion; ok2 is the transport's answer to the
\* handoff that the callback's call makes.
CallbackExecutes(c, raw, ok2) ==
    /\ ctl[c].cmd_ # Null
    /\ LET h == ctl[c].cmd_
           g == NextHandle(h)
           y == StatusUpdate(Pack(c, h), raw, TRUE) IN
       /\ y.res = "finish"
       /\ seq[g].status = kIdle
       /\ LET x1 == FinishMotionNotify([y EXCEPT !.res = "ok"])
              x2 == ExecuteMotion([k |-> x1.k, s |-> seq[g], tx |-> sent[g],
                                   id |-> x1.id, res |-> "ok"],
                                  x1.k.mode_, g, ok2)
              x3 == FinishMotionRelease(x2) IN
          /\ ctl' = [ctl EXCEPT ![c] = x3.k]
          /\ seq' = [seq EXCEPT ![h] = x1.s, ![g] = x3.s]
          /\ sent' = [sent EXCEPT ![g] = x3.tx]
          /\ commandId' = x3.id
          /\ ev' = Event("Callback", x3.res)
    /\ UNCHANGED pc

NextCallback ==
    \/ \E c \in Controllers, m \in {JointPosition, TaskCommand}, h \in Handles :
         \E ok \in HandoffOutcomes(~ctl[c].running_ /\ m = ctl[c].mode_) :
            LongRunExecuteMotion(c, m, h, ok)
    \/ \E c \in Controllers :
          \E raw \in StatusCodes(c) :
             \E ok \in HandoffOutcomes(raw = kSubSuccess) : DoStatus(c, raw, ok)
    \/ \E c \in Controllers, raw \in RawCodes, ok2 \in BOOLEAN :
          CallbackExecutes(c, raw, ok2)
    \/ \E c \in Controllers : DoStepTimer(c)
    \/ \E c \in Controllers : DoAggTimer(c)
    \/ Tick

SpecCallback == InitLongRun /\ [][NextCallback]_vars

\* ------------------------------------------------------- a polling thread
\* A thread of the caller polls while the Controller executes: the cursor
\* (std::atomic<size_t>), the completion flag (std::atomic<bool>) and the id
\* counter (std::atomic<uint32_t>) are read in one step; the running flag
\* (bool running_, read by IsControllerRunning) and the sequence's status
\* (ResponseStatus status) are plain members, whose read begins, takes its
\* time and ends.  A plain read that a write has overlapped is a data race:
\* what it returns is not defined.
AtomicFields == {"current_index", "finished", "commandId"}
PlainFields == {"running_", "status"}

Pollers == {"callerB"}

\* The value of a field of Controller c and of sequence h as it is now.
FieldNow(c, h, field) ==
    CASE field = "current_index" -> seq[h].current_index
      [] field = "finished" -> seq[h].finished
      [] field = "commandId" -> commandId
      [] field = "running_" -> ctl[c].running_
      [] field = "status" -> seq[h].status

\* The values a read of the field may return when it has raced.
FieldValues(field) == IF field = "running_" THEN BOOLEAN ELSE ResponseStatus

InitPoll ==
    /\ seq \in [{"h1"} -> ReadySequences]
    /\ ctl = [c \in AllControllers |->
                IF c = "c1" THEN ReadyController(JointPosition)
                ELSE NewController(TaskCommand)]
    /\ commandId = U32(0)
    /\ sent = [h \in Handles |-> << >>]
    /\ ev = Event("Init", "ok")
    /\ pc = [t \in Threads |-> [at |-> "idle", field |-> "none", seen |-> 0]]

PollAtomic(t, c, h, field) ==
    /\ pc[t].at = "idle"
    /\ ev' = [kind |-> "Poll", res |-> "ok", field |-> field, value |-> FieldNow(c, h, field)]
    /\ UNCHANGED <<seq, ctl, commandId, sent, pc>>

PollPlainBegin(t, c, h, field) ==
    /\ pc[t].at = "idle"
    /\ pc' = [pc EXCEPT ![t] = [at |-> "reading", field |-> field,
                                seen |-> FieldNow(c, h, field)]]
    /\ UNCHANGED <<seq, ctl, commandId, sent, ev>>

\* The plain read has been overlapped by a write of its field.
Raced(t, c, h) ==
    /\ pc[t].at = "reading"
    /\ pc[t].seen # FieldNow(c, h, pc[t].field)

PollPlainEnd(t, c, h) ==
    /\ pc[t].at = "reading"
    /\ \E v \in FieldValues(pc[t].field) :
          /\ Raced(t, c, h) \/ v = pc[t].seen
          /\ ev' = [kind |-> "Poll",
                    res |-> IF Raced(t, c, h) THEN "race" ELSE "ok",
                    field |-> pc[t].field, value |-> v]
    /\ pc' = [pc EXCEPT ![t] = [at |-> "idle", field |-> "none", seen |-> 0]]
    /\ UNCHANGED <<seq, ctl, commandId, sent>>

NextPoll ==
    \/ \E t \in Pollers, c \in Controllers, h \in Created, f \in AtomicFields :
          PollAtomic(t, c, h, f)
    \/ \E t \in Pollers, c \in Controllers, h \in Created, f \in PlainFields :
          PollPlainBegin(t, c, h, f)
    \/ \E t \in Pollers, c \in Controllers, h \in Created : PollPlainEnd(t, c, h)
    \/ \E c \in Controllers, m \in ControllerMode, h \in Handles :
          \E ok \in HandoffOutcomes(~ctl[c].running_ /\ m = ctl[c].mode_) :
             DoExecuteMotion(c, m, h, ok)
    \/ \E c \in Controllers :
          \E raw \in StatusCodes(c) :
             \E ok \in HandoffOutcomes(raw = kSubSuccess) : DoStatus(c, raw, ok)
    \/ \E c \in Controllers : DoStepTimer(c)
    \/ \E c \in Controllers : DoAggTimer(c)
    \/ Tick

SpecPoll == InitPoll /\ [][NextPoll]_vars

\* ------------------------------------------------------------------ claims
state == <<seq, ctl, commandId, sent>>

TerminalCodes == {kSuccess, kUserStop, kTimeout, kAbort, kFail, kRefused}
OutOfRangeCodes == {raw \in RawCodes : raw < 2 \/ raw > 9}

\* The sequence Controller c holds has been sent step by step from its start:
\* indices 0..cursor, each handed to the transport once.
SentInOrder(h) == sent[h] = [i \in 1..(seq[h].current_index + 1) |-> i - 1]

\* C1: after sub-success for steps 1..N-1 (the cursor is at the last step, every
\* step was handed over once, in order), a success for step N ends the sequence
\* with cursor = N, completion = true, status = success and one callback.
C1_CursorAtLengthAfterSuccess ==
    [][\A c \in Controllers, ok \in BOOLEAN :
         LET h == ctl[c].cmd_ IN
         (/\ h # Null
          /\ ctl[c].running_
          /\ seq[h].current_index = Len(seq[h].commands) - 1
          /\ SentInOrder(h)
          /\ DoStatus(c, kSuccess, ok))
         => (/\ seq'[h].current_index = Len(seq[h].commands)
             /\ seq'[h].finished
             /\ seq'[h].status = kSuccess
             /\ ctl'[c].calls = ctl[c].calls + 1
             /\ ctl'[c].calls = ctl'[c].accepted)]_vars

\* C2: a terminal value v that arrives while step k is in flight finishes the
\* sequence at once with status v; the cursor stays at k, nothing more is handed
\* to the transport (then or later, while no Controller holds the sequence) and
\* the callback is invoked exactly once.
C2_TerminalEndsSequence ==
    [][/\ \A c \in Controllers, v \in TerminalCodes, ok \in BOOLEAN :
            LET h == ctl[c].cmd_ IN
            (/\ h # Null
             /\ ctl[c].running_
             /\ HasNext(seq[h])
             /\ DoStatus(c, v, ok))
            => (/\ seq'[h].status = v
                /\ seq'[h].finished
                /\ seq'[h].current_index = seq[h].current_index
                /\ sent' = sent
                /\ ~ctl'[c].running_
                /\ ctl'[c].cmd_ = Null
                /\ ctl'[c].calls = ctl[c].calls + 1
                /\ ctl'[c].calls = ctl'[c].accepted)
       /\ \A h \in Created :
            (\A c \in AllControllers : ctl[c].cmd_ # h /\ ctl'[c].cmd_ # h)
            => sent'[h] = sent[h]]_vars

C2_Witness ==
    /\ ev = Event("Status", "ok")
    /\ \E h \in Created :
          /\ seq[h].status = kAbort
          /\ seq[h].finished
          /\ seq[h].current_index = 1
          /\ Len(seq[h].commands) = 3
          /\ sent[h] = <<0, 1>>
    /\ ctl["c1"].calls = 1

\* C3: under every interleaving of the transport thread, the per-step timer
\* and the aggregate timer, the callback is invoked exactly once for every
\* accepted ExecuteMotion: never more often than sequences were accepted, and
\* as often once the Controller is idle and every handler has returned.
C3_CallbackExactlyOnce ==
    \A c \in Controllers :
       /\ ctl[c].calls <= ctl[c].accepted
       /\ (/\ ~ctl[c].running_
           /\ ctl[c].cmd_ = Null
           /\ \A t \in HandlerThreads : pc[t] = "idle")
          => ctl[c].calls = ctl[c].accepted

\* C4: ExecuteMotion on a running Controller fails with InvalidOperation and
\* changes nothing: not the running sequence (id, cursor, status, completion),
\* not the timers, not the sequence passed in, not the id counter.
C4_RejectedWhileRunning ==
    [][\A c \in Controllers, m \in ControllerMode, h \in Handles, ok \in BOOLEAN :
         (ctl[c].running_ /\ DoExecuteMotion(c, m, h, ok))
         => (ev'.res = "InvalidOperation" /\ UNCHANGED state)]_vars

C4_Witness ==
    /\ ev = Event("ExecuteMotion", "InvalidOperation")
    /\ ctl["c1"].running_
    /\ ctl["c1"].cmd_ = "h1"
    /\ "h2" \in Created
    /\ seq["h2"].status = kIdle
    /\ seq["h2"].cmd_id = U32(0)

\* C5: when two threads call ExecuteMotion on the same idle Controller, at most
\* one call is accepted: the Controller never has two sequences in flight.
InFlight == {h \in Created : seq[h].status \in {kSending, kWaiting} /\ ~seq[h].finished}

C5_OneSequenceInFlight ==
    /\ Cardinality(InFlight) <= 1
    /\ \A c \in Controllers : ctl[c].accepted <= ctl[c].calls + 1

\* C6: ExecuteMotion with a mode that differs from the bound mode (in space, in
\* type or in both) is rejected with InvalidOperation, whether the Controller
\* is idle or running, and changes nothing.
C6_ModeMismatchRejected ==
    [][\A c \in Controllers, m \in ControllerMode, h \in Handles, ok \in BOOLEAN :
         (m # ctl[c].mode_ /\ DoExecuteMotion(c, m, h, ok))
         => (ev'.res = "InvalidOperation" /\ UNCHANGED state)]_vars

C6_Witness ==
    /\ ev = Event("ExecuteMotion", "InvalidOperation")
    /\ ~ctl["c1"].running_
    /\ ctl["c1"].cmd_ = Null
    /\ commandId = U32(0)
    /\ "h1" \in Created
    /\ seq["h1"].status = kIdle

\* C7: when the per-step timer expires on a running sequence, the status
\* becomes timeout and the sequence finishes, at whatever step index.
C7_StepTimerForcesTimeout ==
    [][\A c \in Controllers :
         LET h == ctl[c].cmd_ IN
         (h # Null /\ DoStepTimer(c))
         => (/\ seq'[h].status = kTimeout
             /\ seq'[h].finished
             /\ seq'[h].current_index = seq[h].current_index
             /\ ~ctl'[c].running_
             /\ ctl'[c].calls = ctl[c].calls + 1)]_vars

C7_Witness ==
    /\ ev = Event("StepTimer", "ok")
    /\ \E h \in Created :
          /\ seq[h].status = kTimeout
          /\ seq[h].finished
          /\ seq[h].current_index = 1
    /\ ctl["c1"].calls = 1

\* C8: when the aggregate timer expires on a running Controller, in status
\* sending or waiting, at any step index, the per-step timer expired or not,
\* the status becomes timeout, the sequence finishes and no step is sent.
C8_AggTimerForcesTimeout ==
    [][\A c \in Controllers :
         LET h == ctl[c].cmd_ IN
         (h # Null /\ DoAggTimer(c))
         => (/\ seq'[h].status = kTimeout
             /\ seq'[h].finished
             /\ seq'[h].current_index = seq[h].current_index
             /\ sent' = sent
             /\ ~ctl'[c].running_
             /\ ctl'[c].cmd_ = Null
             /\ ctl'[c].calls = ctl[c].calls + 1)]_vars

C8_Witness ==
    /\ ev = Event("AggTimer", "preempt")
    /\ \E h \in Created :
          /\ seq[h].status = kTimeout
          /\ seq[h].finished
          /\ seq[h].current_index = 2
          /\ sent[h] = <<0, 1, 2>>

\* C9: while a sequence runs, the aggregate timer only counts down: no
\* SendCommand and no sub-success re-arms it.  A step handed over successfully
\* (by ExecuteMotion or after a sub-success) arms the per-step timer with the
\* timeout of the step at the cursor.
C9_AggregateFixedStepRearmed ==
    [][\A c \in Controllers :
         LET h == ctl'[c].cmd_ IN
         /\ (ctl[c].running_ /\ ctl'[c].running_ /\ ctl[c].cmd_ = h)
            => ctl'[c].agg_timer =
                 IF ev'.kind = "Tick" THEN Elapse(ctl[c].agg_timer) ELSE ctl[c].agg_timer
         /\ (h # Null /\ sent'[h] # sent[h] /\ ev'.res = "ok")
            => ctl'[c].step_timer =
                 Armed(seq'[h].commands[seq'[h].current_index + 1].timeout)
         /\ (ctl'[c].running_ /\ ~ctl[c].running_)
            => ctl'[c].agg_timer = Armed(seq'[h].total_timeout)]_vars

C9_Witness ==
    /\ ev = Event("Status", "ok")
    /\ ctl["c1"].running_
    /\ ctl["c1"].cmd_ = "h1"
    /\ seq["h1"].current_index = 1
    /\ seq["h1"].status = kWaiting
    /\ ctl["c1"].step_timer = Armed(1)
    /\ ctl["c1"].agg_timer = Armed(2)

\* C10: a status update whose raw code is outside [kWaiting..kRefused] changes
\* nothing, whatever the Controller's state, and raises no error.
C10_OutOfRangeIgnored ==
    [][\A c \in Controllers, raw \in OutOfRangeCodes, ok \in BOOLEAN :
         DoStatus(c, raw, ok)
         => (UNCHANGED state /\ ev'.res \in {"unknown", "dropped"})]_vars

C10_Witness ==
    /\ ev = Event("Status", "unknown")
    /\ ctl["c1"].running_
    /\ ctl["c1"].cmd_ = "h1"
    /\ seq["h1"].current_index = 1
    /\ seq["h1"].status = kWaiting

\* C11: ToResponseStatus(c) is the status whose value is c for c in 2..9 and
\* kUnknown for every other code; the codes of kIdle, kSending and kUnknown all
\* decode to kUnknown, and the result is never kIdle or kSending.
C11_DecodeRange ==
    ev.kind = "ToResponseStatus"
    => /\ (ev.arg >= 2 /\ ev.arg <= 9) => ev.res = ev.arg
       /\ (ev.arg < 2 \/ ev.arg > 9) => ev.res = kUnknown
       /\ ev.arg \in {kIdle, kSending, kUnknown} => ev.res = kUnknown
       /\ ev.res \notin {kIdle, kSending}
       /\ ev.res \in ResponseStatus

C11_Witness ==
    /\ ev.kind = "ToResponseStatus"
    /\ ev.arg = kSending
    /\ ev.res = kUnknown

\* C16: CreateCommands with N variants, 1 <= N <= 20, returns a sequence that
\* holds the N variants in input order, with length N, cursor 0, completion
\* false and status idle; with N = 0 or N > 20 it throws and returns nothing.
C16_CreateCommandsBounds ==
    ev.kind = "CreateCommands"
    => LET N == Len(ev.arg) IN
       /\ (N >= 1 /\ N <= 20)
          => /\ ev.res.ok
             /\ ev.res.cmd.commands = ev.arg
             /\ Len(ev.res.cmd.commands) = N
             /\ ev.res.cmd.cmd_size = N
             /\ ev.res.cmd.current_index = 0
             /\ ~ev.res.cmd.finished
             /\ ev.res.cmd.status = kIdle
       /\ (N = 0 \/ N > 20) => ~ev.res.ok

C16_Witness ==
    /\ ev.kind = "CreateCommands"
    /\ Len(ev.arg) = 20
    /\ ev.res.ok
    /\ Len(ev.res.cmd.commands) = 20

\* C12: IsActionFinished is true exactly for success, user-stop, timeout,
\* abort, fail and refused; and a running Controller finishes on a status
\* update exactly when the value is one of these or is a sub-success for the
\* last step.
C12_TerminalityDecides ==
    /\ \A st \in ResponseStatus : IsActionFinished(st) <=> st \in TerminalCodes
    /\ \A c \in Controllers :
          (ctl[c].cmd_ # Null /\ ctl[c].running_)
          => \A raw \in RawCodes, ok \in BOOLEAN :
                LET h == ctl[c].cmd_
                    x == OnStatus(Pack(c, h), raw, ok)
                    last == seq[h].current_index + 1 >= Len(seq[h].commands)
                IN  (~x.k.running_ /\ x.s.finished /\ x.k.cmd_ = Null)
                    <=> (raw \in TerminalCodes \/ (raw = kSubSuccess /\ last))

C12_Witness ==
    /\ ev = Event("Status", "ok")
    /\ ~ctl["c1"].running_
    /\ "h1" \in Created
    /\ seq["h1"].finished
    /\ seq["h1"].status = kSuccess
    /\ seq["h1"].current_index = 2
    /\ Len(seq["h1"].commands) = 2

\* C13: the calls of GenerateCommandId, made from any threads, return pairwise
\* distinct values, and every call returns a value strictly greater than the
\* value returned by any call that completed before it started.
C13_IdsDistinctAndIncreasing ==
    LET done == {t \in Threads : pc[t].at = "returned"} IN
    /\ \A t, u \in done : t # u => pc[t].ret # pc[u].ret
    /\ \A t \in done : \A v \in pc[t].before : U32Less(v, pc[t].ret)

\* Short of the wrap the same holds under every interleaving.
C13_YoungProcess ==
    (commandId.hi = 0 /\ \A t \in Threads : pc[t].ret.hi = 0)
    => C13_IdsDistinctAndIncreasing

\* C14: the id that ExecuteMotion assigns is never reused: an accepted call, on
\* whichever Controller, assigns an id different from and larger than the id
\* of every sequence accepted before it, however many calls were accepted.
C14_IdsNeverReused ==
    [][\A c \in AllControllers, m \in {JointPosition, TaskCommand},
          h \in Handles, ok \in BOOLEAN :
         (LongRunExecuteMotion(c, m, h, ok) /\ ev'.res # "InvalidOperation")
         => \A g \in Handles :
              seq[g].status # kIdle => U32Less(seq[g].cmd_id, seq'[h].cmd_id)]_vars

\* Short of 2^32 accepted calls the ids do grow.
C14_YoungProcess ==
    [][\A c \in AllControllers, m \in {JointPosition, TaskCommand},
          h \in Handles, ok \in BOOLEAN :
         (commandId.hi = 0 /\ LongRunExecuteMotion(c, m, h, ok)
            /\ ev'.res # "InvalidOperation")
         => \A g \in Handles :
              (seq[g].status # kIdle /\ seq[g].cmd_id.hi = 0)
              => U32Less(seq[g].cmd_id, seq'[h].cmd_id)]_vars

C17_CursorWithinLength ==
    \A h \in Created :
        seq[h].current_index >= 0 /\ seq[h].current_index <= Len(seq[h].commands)

\* C17, second half: the cursor never decreases.
C17_CursorNeverDecreases ==
    [][\A h \in Created : seq'[h].current_index >= seq[h].current_index]_vars

\* C18: in every state in which the completion flag of a sequence reads true,
\* the status of the sequence is a terminal status.
C18_CompletionImpliesTerminal ==
    \A h \in Created : seq[h].finished => IsActionFinished(seq[h].status)

\* C18, first half: the completion flag never goes back from true to false.
C18_CompletionNeverCleared ==
    [][\A h \in Created : seq[h].finished => seq'[h].finished]_vars

\* A sequence executed once is complete only with a terminal status.
C18_FirstExecution ==
    \A h \in Created :
        (seq[h].finished /\ Accepted <= 1) => IsActionFinished(seq[h].status)

\* C19: every accepted ExecuteMotion eventually finishes, if only armed timers
\* eventually fire: the sequence that a running Controller holds reaches a
\* terminal status with completion true, the running flag cleared and the
\* callback invoked, whatever the transport delivers or fails to deliver.
C19_AcceptedEventuallyFinishes ==
    \A c \in Controllers, h \in Handles :
        (ctl[c].running_ /\ ctl[c].cmd_ = h)
        ~> (/\ h \in Created
            /\ seq[h].finished
            /\ IsActionFinished(seq[h].status)
            /\ ~ctl[c].running_
            /\ ctl[c].calls = ctl[c].accepted)

\* The first handoff failed, no status ever arrived, and the aggregate timer
\* finished the sequence.
C19_Witness ==
    /\ ev = Event("AggTimer", "ok")
    /\ seq["h1"].finished
    /\ seq["h1"].status = kTimeout
    /\ seq["h1"].current_index = 0
    /\ sent["h1"] = <<0>>
    /\ ~ctl["c1"].running_
    /\ ctl["c1"].calls = 1
    /\ ~ctl["c1"].step_timer.armed

\* The step indices handed to the transport for h in the step taken.
NewlySent(h) == SubSeq(sent'[h], Len(sent[h]) + 1, Len(sent'[h]))

\* C20: when the handoff of a step fails, of the first step or of a later
\* one, the sequence in flight is resolved into a terminal status and the
\* Controller finishes, and the step is not handed over again: within one
\* execution every step handed over is one not handed over before.
C20_HandoffFailureResolved ==
    /\ \A c \in Controllers, h \in Handles :
          (ev.res = "NetworkFailure" /\ ctl[c].running_ /\ ctl[c].cmd_ = h)
          ~> (/\ h \in Created
              /\ seq[h].finished
              /\ IsActionFinished(seq[h].status)
              /\ ~ctl[c].running_
              /\ ctl[c].cmd_ = Null)
    /\ [][\A h \in Created :
            /\ Len(NewlySent(h)) <= 1
            /\ (seq'[h].cmd_id = seq[h].cmd_id /\ Len(NewlySent(h)) = 1)
               => \A i \in 1..Len(sent[h]) : sent[h][i] < NewlySent(h)[1]]_vars

\* The handoff of the second step has just failed: the sequence is in flight,
\* its status still that of the first step.
C20_Witness ==
    /\ ev = Event("Status", "NetworkFailure")
    /\ ctl["c1"].running_
    /\ ctl["c1"].cmd_ = "h1"
    /\ seq["h1"].current_index = 1
    /\ sent["h1"] = <<0, 1>>
    /\ ~seq["h1"].finished

\* C21: within one ExecuteMotion the steps are handed over in increasing index
\* order from 0, each at most once, and step i+1 is handed over only when a
\* sub-success for step i is processed: an update that repeats, about a step
\* before the one in flight, sends nothing.
C21_NextStepAfterItsSubSuccess ==
    [][\A h \in Created :
         /\ (seq'[h].cmd_id # seq[h].cmd_id /\ Len(NewlySent(h)) = 1)
            => NewlySent(h)[1] = 0
         /\ (seq'[h].cmd_id = seq[h].cmd_id /\ Len(NewlySent(h)) = 1)
            => (/\ NewlySent(h)[1] = sent[h][Len(sent[h])] + 1
                /\ ev'.kind = "Status"
                /\ ev'.about = sent[h][Len(sent[h])])]_vars

\* C21, the order alone: each step handed over is the one after the last.
C21_SentInIndexOrder ==
    [][\A h \in Created :
         (seq'[h].cmd_id = seq[h].cmd_id /\ Len(NewlySent(h)) = 1)
         => NewlySent(h)[1] = sent[h][Len(sent[h])] + 1]_vars

\* The threads that are inside an operation that writes the Controller's
\* state: a handler that has begun and not yet released the sequence.
Writers == {t \in Threads : pc[t] \in {"notify", "release"}}

\* C22: the Controller's state has one writer at a time: in no state are two
\* of the caller's, the transport's and the timers' threads inside an
\* operation that writes it.
C22_OneWriterAtATime == Cardinality(Writers) <= 1

\* C23: every field that a polling thread reads without a lock is atomic: no
\* read of the poller is overlapped by a write of the transport's or a
\* timer's thread to the field it reads.
C23_NoRacingRead ==
    [][\A t \in Pollers, c \in Controllers, h \in Created :
         (pc[t].at = "reading" /\ ev'.kind \in {"Status", "StepTimer", "AggTimer"})
         => /\ pc[t].field = "running_" => ctl'[c].running_ = ctl[c].running_
            /\ pc[t].field = "status" => seq'[h].status = seq[h].status]_vars

\* C23, the atomic fields: a read of the cursor, the completion flag or the
\* id counter returns the value the field has.
C23_AtomicReads ==
    (ev.kind = "Poll" /\ ev.field \in AtomicFields)
    => \E c \in Controllers, h \in Created : ev.value = FieldNow(c, h, ev.field)

\* C24: the Controller never calls Current() on a sequence whose cursor is at
\* or past its length: no ExecuteMotion and no status update ends with
\* IndexOutOfRange, also when the sequence passed in was executed before.
C24_CurrentNeverOutOfRange == ev.res # "IndexOutOfRange"

\* A sequence executed for the first time is never read past its end.
C24_FirstExecution ==
    Accepted <= 1 => ev.res # "IndexOutOfRange"

\* The Controllers that are running the sequence h.
Holders(h) == {c \in AllControllers : ctl[c].running_ /\ ctl[c].cmd_ = h}

\* C25: at any time a sequence is held for execution by at most one
\* Controller.
C25_AtMostOneHolder == \A h \in Handles : Cardinality(Holders(h)) <= 1

\* C26: after FinishMotion the Controller is idle again.  Whenever a handler
\* leaves the held sequence with a terminal status, whichever of the six,
\* completion is true, the running flag is false and the Controller holds no
\* sequence; and an idle Controller accepts ExecuteMotion with its bound mode,
\* for the first sequence and for every one after it.
C26_IdleAfterFinish ==
    [][\A c \in Controllers, h \in Handles :
         /\ (/\ ctl[c].running_ /\ ctl[c].cmd_ = h
             /\ ev'.kind \in {"Status", "StepTimer", "AggTimer"}
             /\ IsActionFinished(seq'[h].status))
            => (seq'[h].finished /\ ~ctl'[c].running_ /\ ctl'[c].cmd_ = Null)
         /\ \A ok \in BOOLEAN :
              (~ctl[c].running_ /\ LongRunExecuteMotion(c, ctl[c].mode_, h, ok))
              => (/\ ev'.res # "InvalidOperation"
                  /\ ctl'[c].running_
                  /\ ctl'[c].cmd_ = h
                  /\ ctl'[c].accepted = ctl[c].accepted + 1)]_vars

\* A second sequence, a fresh one, has been accepted after the first ended.
C26_Witness ==
    /\ ev = Event("ExecuteMotion", "ok")
    /\ ctl["c1"].accepted = 2
    /\ ctl["c1"].running_
    /\ ctl["c1"].cmd_ = "h2"
    /\ seq["h2"].current_index = 0
    /\ seq["h1"].finished
    /\ seq["h1"].status = kRefused

\* C27: for a sequence of length N, HasNext() is true exactly while the cursor
\* is below N; Advance() adds one to the cursor below N and changes nothing at
\* N; after k calls of Advance on a fresh sequence the cursor is the smaller of
\* k and N, so after N calls HasNext() is false.
C27_HasNextAndAdvance ==
    \A t \in CallerThreads :
        LET s == seq[HandleOf(t)]
            N == s.cmd_size
            k == pc[t] IN
        /\ N = Len(s.commands)
        /\ s.current_index = (IF k < N THEN k ELSE N)
        /\ HasNext(s) <=> s.current_index < N
        /\ k >= N => ~HasNext(s)
        /\ s.current_index < N
             => Advance(s) = [s EXCEPT !.current_index = s.current_index + 1]
        /\ s.current_index = N => Advance(s) = s
        /\ (ev.kind = "HasNext" /\ ev.h = HandleOf(t))
             => (ev.res = "true" <=> s.current_index < N)

\* Advance was called once more than the three steps of the sequence, and the
\* last call changed nothing.
C27_Witness ==
    /\ ev = Event("Advance", "unchanged")
    /\ seq["h1"].cmd_size = 3
    /\ seq["h1"].current_index = 3
    /\ pc["callerA"] = 4

\* C28: CreateCommand of one variant, of whichever of the three kinds, returns
\* a sequence of length 1 that holds the variant, with cursor 0, completion
\* false, status idle, and the variant's own timeout as aggregate timeout.
C28_CreateCommandSingle ==
    ev.kind = "CreateCommand"
    => /\ ev.res.cmd_size = 1
       /\ ev.res.commands = <<ev.arg>>
       /\ ev.res.current_index = 0
       /\ ~ev.res.finished
       /\ ev.res.status = kIdle
       /\ ev.res.total_timeout = ev.arg.timeout
       /\ ev.res.cmd_id = U32(0)

\* An end-effector command with a timeout of 2 s was wrapped.
C28_Witness ==
    /\ ev.kind = "CreateCommand"
    /\ ev.arg.kind = "EndEffectorCommand"
    /\ ev.arg.timeout = 2
    /\ ev.res.total_timeout = 2
    /\ Len(ev.res.commands) = 1

\* C29: no operation of the public interface yields a sequence with a step
\* timeout or an aggregate timeout that is zero or negative: whatever
\* CreateCommand or an accepted CreateCommands returns has an aggregate
\* timeout above zero and only steps with a timeout above zero.
C29_TimeoutsPositive ==
    LET made == IF ev.kind = "CreateCommand" THEN {ev.res}
                ELSE IF ev.kind = "CreateCommands" /\ ev.res.ok THEN {ev.res.cmd}
                ELSE {}
    IN  \A s \in made :
           /\ s.total_timeout > 0
           /\ \A i \in 1..Len(s.commands) : s.commands[i].timeout > 0

\* The index of the k-th step of the given kind in a list of commands.
NthOfKind(commands, kind, k) ==
    CHOOSE i \in 1..Len(commands) :
        /\ commands[i].kind = kind
        /\ Cardinality({j \in 1..i : commands[j].kind = kind}) = k

CountOfKind(commands, kind) ==
    Cardinality({i \in 1..Len(commands) : commands[i].kind = kind})

\* C30: the projections keep the order of the steps and filter by type.  The
\* timeout projection has one entry per step, the i-th being the timeout of
\* step i; the joint-target projection has one entry per motion step, the k-th
\* being the joint target of the k-th motion step; the end-effector projection
\* has one entry per end-effector step, the k-th being the label of the k-th
\* end-effector step's action; and the sequence after the call is the
\* sequence before it (cursor, status and completion included).
C30_ProjectionsFilterInOrder ==
    LET cs == ev.arg.commands IN
    /\ ev.kind = "getTimeoutVec"
       => /\ Len(ev.res) = ev.arg.cmd_size
          /\ \A i \in 1..Len(cs) : ev.res[i] = cs[i].timeout
          /\ seq["h1"] = ev.arg
    /\ ev.kind = "getJointPositionsVec"
       => /\ Len(ev.res) = CountOfKind(cs, "MotionCommand")
          /\ \A k \in 1..Len(ev.res) :
                ev.res[k] = cs[NthOfKind(cs, "MotionCommand", k)].payload
          /\ seq["h1"] = ev.arg
    /\ ev.kind = "getEEActionsVecStr"
       => /\ Len(ev.res) = CountOfKind(cs, "EndEffectorCommand")
          /\ \A k \in 1..Len(ev.res) :
                ev.res[k] = CASE cs[NthOfKind(cs, "EndEffectorCommand", k)].payload = 1 -> "Open"
                              [] cs[NthOfKind(cs, "EndEffectorCommand", k)].payload = 3 -> "ForceClose"
          /\ seq["h1"] = ev.arg

\* The joint targets of a sequence motion, end-effector, motion were taken
\* with the cursor on the second step: two targets, in step order.
C30_Witness ==
    /\ ev.kind = "getJointPositionsVec"
    /\ ev.arg.commands = <<MotionCommand("q2", 2), EndEffectorCommand(3, 30), MotionCommand("q1", 1)>>
    /\ ev.arg.current_index = 1
    /\ ev.res = <<"q2", "q1">>
    /\ seq["h1"].current_index = 1

\* The mode a Controller was constructed with.
ModeAtConstruction(c) == IF c = "c1" THEN JointPosition ELSE TaskCommand

\* C31: two ControllerMode values are equal if and only if both their space
\* and their type are equal, and the mode a Controller was bound to at
\* construction is never changed by any operation.
C31_ModeExactAndFixed ==
    /\ \A a, b \in ControllerMode :
          ModeEq(a, b) <=> (a.space = b.space /\ a.type = b.type)
    /\ \A c \in AllControllers : ctl[c].mode_ = ModeAtConstruction(c)

\* ExecuteMotion was refused on an idle Controller, that is for its mode, and
\* the Controller has been through an accepted sequence before.
C31_Witness ==
    /\ ev = Event("ExecuteMotion", "InvalidOperation")
    /\ ~ctl["c1"].running_
    /\ ctl["c1"].accepted = 1
    /\ ctl["c1"].mode_ = JointPosition

\* C32: the id of a sequence is assigned at dispatch, once.  In every step a
\* sequence that has an id keeps it, and after every step the id of a sequence
\* is 0 exactly when the sequence was never dispatched (its status is idle).
C32_IdAssignedOnceAtDispatch ==
    [][\A h \in Created :
         /\ seq[h].cmd_id # U32(0) => seq'[h].cmd_id = seq[h].cmd_id
         /\ seq'[h].cmd_id = U32(0) <=> seq'[h].status = kIdle]_vars

\* In a process short of 2^32 dispatches the id is 0 exactly for the
\* sequences never dispatched.
C32_YoungProcess ==
    (commandId.hi = 0 /\ commandId.lo = Accepted)
    => \A h \in Created : seq[h].cmd_id = U32(0) <=> seq[h].status = kIdle

\* C33: a terminal status is absorbing.  Once a sequence is complete with a
\* terminal status, a status update, a timer expiry and what these handlers
\* go on to do leave its status, cursor and completion flag as they are and
\* do not invoke the callback of the Controller that holds it again.
C33_TerminalAbsorbing ==
    [][\A h \in Created :
         (/\ seq[h].finished
          /\ IsActionFinished(seq[h].status)
          /\ ev'.kind \in {"Status", "StepTimer", "AggTimer", "FinishMotion"})
         => /\ seq'[h].status = seq[h].status
            /\ seq'[h].current_index = seq[h].current_index
            /\ seq'[h].finished
            /\ \A c \in AllControllers :
                  ctl[c].cmd_ = h => ctl'[c].calls = ctl[c].calls]_vars

\* C34: a status update whose sequence id is not the id of the sequence that
\* the Controller is running does not advance, finish or otherwise change
\* that sequence or the Controller, and a status update that arrives while
\* the Controller holds no sequence changes nothing.
C34_ForeignUpdateIgnored ==
    [][\A c \in Controllers :
         (/\ ev'.kind = "Status"
          /\ \/ ctl[c].cmd_ = Null
             \/ ev'.about # seq[ctl[c].cmd_].cmd_id)
         => UNCHANGED <<seq, ctl, sent>>]_vars

\* The half about the idle Controller: an update that finds no sequence held
\* changes nothing.
C34_IdleUpdateDropped ==
    [][\A c \in Controllers :
         (ev'.kind = "Status" /\ ctl[c].cmd_ = Null)
         => (ev'.res = "dropped" /\ UNCHANGED <<seq, ctl, sent>>)]_vars

C36_CallbackSequenceKept ==
    /\ ev.kind = "Callback" => ev.res # "InvalidOperation"
    /\ \A c \in Controllers : ctl[c].running_ => ctl[c].cmd_ # Null

\* The first half holds: the callback's call is accepted.
C36_CallbackCallAccepted ==
    ev.kind = "Callback" => ev.res # "InvalidOperation"

\* The step indices of h handed to the transport so far.
StepsSent(h) == {sent[h][i] : i \in 1..Len(sent[h])}

\* C37: whenever the status of a sequence is success, every one of its steps
\* was handed to the transport, the last one included.
C37_SuccessMeansAllStepsSent ==
    \A h \in Created :
        seq[h].status = kSuccess => StepsSent(h) = 0..(seq[h].cmd_size - 1)

\* C38: a status update that decodes to waiting, received while a sequence is
\* running, does not advance the cursor, does not finish the sequence, does
\* not invoke the callback and does not disarm or re-arm the per-step or the
\* aggregate timer; no step is sent and the Controller goes on running it.
C38_WaitingChangesNothing ==
    [][\A c \in Controllers, ok \in BOOLEAN :
         (ctl[c].cmd_ # Null /\ DoStatus(c, kWaiting, ok))
         => LET h == ctl[c].cmd_ IN
            /\ seq'[h].current_index = seq[h].current_index
            /\ seq'[h].finished = seq[h].finished
            /\ ~IsActionFinished(seq[h].status) => ~IsActionFinished(seq'[h].status)
            /\ ctl'[c].calls = ctl[c].calls
            /\ ctl'[c].step_timer = ctl[c].step_timer
            /\ ctl'[c].agg_timer = ctl[c].agg_timer
            /\ ctl'[c].running_ = ctl[c].running_
            /\ ctl'[c].cmd_ = h
            /\ sent' = sent]_vars

\* A status update left a running sequence of three steps on its first step
\* with both timers running: the update was waiting, since a sub-success
\* moves the cursor, a terminal code ends the run and any other code is
\* reported as unknown.
C38_Witness ==
    /\ ev = Event("Status", "ok")
    /\ ctl["c1"].running_
    /\ ctl["c1"].cmd_ = "h1"
    /\ seq["h1"].cmd_size = 3
    /\ seq["h1"].current_index = 0
    /\ seq["h1"].status = kWaiting
    /\ ~seq["h1"].finished
    /\ ctl["c1"].step_timer = Armed(1)
    /\ ctl["c1"].agg_timer = Armed(2)
    /\ ctl["c1"].calls = 0

\* The Controller c holds a sequence that is not complete.
HoldsUnfinished(c) == ctl[c].cmd_ # Null /\ ~seq[ctl[c].cmd_].finished

\* The state of every Controller and sequence is consistent.
StateConsistent ==
    /\ \A c \in AllControllers :
          /\ ctl[c].running_ <=> HoldsUnfinished(c)
          /\ ctl[c].running_ => seq[ctl[c].cmd_].status \in {kSending, kWaiting}
    /\ \A h \in Created : seq[h].status = kIdle <=> sent[h] = << >>

\* C39: in every reachable state the running flag of a Controller is true if
\* and only if the Controller holds a sequence whose completion flag is false,
\* the status of that sequence is then sending or waiting, and the status of
\* a sequence is idle if and only if no ExecuteMotion has accepted it (none of
\* its steps was handed over).
C39_RunningIffHoldsUnfinished == StateConsistent

\* Up to the first accepted ExecuteMotion of the process the state is
\* consistent.
C39_FirstExecution == Accepted <= 1 => StateConsistent

====
